---- MODULE Spec2Model ----
(***************************************************************************)
(* FlagGame: the flag viewer (App, Flag, ColourPicker) as a state machine, *)
(* and the flag generator's layout pass.                                   *)
(*                                                                         *)
(* Viewer.  One action per handler: the mount effects, a country selection *)
(* in the dropdown, the completion (or failure) of an SVG injection by     *)
(* ReactSVG, the firing of a 100 ms timer set by loadFlag, a swatch click  *)
(* in the colour picker and a click on a shape of the flag.  A handler and *)
(* the React effects it triggers run to completion before the next event.  *)
(*                                                                         *)
(* Generator.  create_flag.py is called by generate_flags.sh but its text  *)
(* is not part of the sources; its layout pass is modelled from the        *)
(* specification (sections 3, 4.2 and 8).                                  *)
(***************************************************************************)
EXTENDS Naturals, Sequences, FiniteSets

VARIABLES
    mounted,           \* the mount effects of App/Flag/ColourPicker have run
    flag,              \* App: useState('ua')
    dropdown,          \* the option the <select> element shows
    color,             \* App: useState('#FFFFFF')
    pickerColor,       \* ColourPicker: useState(null)
    selectedColorRef,  \* Flag: selectedColorRef.current
    loading,           \* Flag: useState(true)
    flagComponents,    \* Flag: useState({})
    dom,               \* the <svg> element document.querySelector("svg") finds
    requests,          \* injections ReactSVG has started and not finished
    timers,            \* pending setTimeout callbacks of loadFlag, oldest first
    nSel,              \* number of country selections so far
    nPicks,            \* number of swatch picks so far
    nClicks,           \* number of shape clicks so far
    clicked,           \* index of the shape clicked last, 0 once anything else happened to the fills
    gen                \* the generator run: arguments, cursor, output

vars == <<mounted, flag, dropdown, color, pickerColor, selectedColorRef, loading,
          flagComponents, dom, requests, timers, nSel, nPicks, nClicks, clicked, gen>>

viewerVars == <<mounted, flag, dropdown, color, pickerColor, selectedColorRef, loading,
                flagComponents, dom, requests, timers, nSel, nPicks, nClicks, clicked>>

----------------------------------------------------------------------------
(* Bounds of the model. *)

MaxShapes == 2       \* shapes of a document the viewer loads after a selection
MaxLoadShapes == 5   \* shapes of a document in the single-load specification
MaxSwatch == 2       \* the user picks among the first MaxSwatch swatches
MaxSelect == 2       \* country selections
MaxPicks == 2        \* swatch picks
MaxClicks == 2       \* shape clicks
MaxDirectives == 2   \* directives on a generator command line
MaxStripes == 3      \* stripes of a --horizontal / --vertical directive
MaxColours == 4      \* colours after -c

----------------------------------------------------------------------------
(* JavaScript values. *)

JsNull == "<null>"
JsUndefined == "<undefined>"

\* Element.setAttribute(name, value) stores String(value).
ToAttr(v) == IF v = JsNull THEN "null" ELSE IF v = JsUndefined THEN "undefined" ELSE v

\* if (id): null and the empty string are falsy, every other string is truthy.
Truthy(v) == v /= JsNull /\ v /= JsUndefined /\ v /= ""

\* obj[id]: a property key is String(id).
PropKey(id) == ToAttr(id)

----------------------------------------------------------------------------
(* Program constants. *)

\* The first and the initially displayed of the seventy codes of the list.
countries == <<"ae", "ua">>

Countries == {countries[i] : i \in 1..Len(countries)}

grays == <<"#808080", "#909090", "#9D9D9D", "#A7A7A7">>

Grays == {grays[i] : i \in 1..Len(grays)}

swatches == <<"#000000", "#FFFFFF", "#C8102E", "#FFCD00", "#ABCAE9", "#003DA5", "#1B7339">>

Swatches == {swatches[i] : i \in 1..Len(swatches)}

\* The swatches the user of the model clicks.
PickSet == {swatches[i] : i \in 1..(IF MaxSwatch < Len(swatches) THEN MaxSwatch ELSE Len(swatches))}

----------------------------------------------------------------------------
(* Flag documents: the .flag-component shapes of an SVG file, in document  *)
(* order.  The files under public/flags are inputs: any sequence of shapes *)
(* whose id attribute is absent, empty or a name.                          *)

IdSet == {JsNull, "", "a", "b"}

OrigFill == "orig"

Shape(id) == [id |-> id, fill |-> OrigFill, listeners |-> <<>>]

DocsOfLen(n) == [1..n -> IdSet]

DocSet == UNION {DocsOfLen(n) : n \in 1..MaxShapes}

LoadDocSet == UNION {DocsOfLen(n) : n \in 1..MaxLoadShapes}

NoSvg == [present |-> FALSE, sel |-> 0, src |-> "", shapes |-> <<>>]

NewSvg(sel, src, ids) ==
    [present |-> TRUE, sel |-> sel, src |-> src,
     shapes |-> [i \in 1..Len(ids) |-> Shape(ids[i])]]

----------------------------------------------------------------------------
(* JavaScript objects and arrays. *)

EmptyObj == [k \in {} |-> JsUndefined]

\* obj[key] = val
Put(obj, key, val) == [k \in DOMAIN obj \cup {key} |-> IF k = key THEN val ELSE obj[k]]

\* obj[key], undefined when the property was never set
Get(obj, key) == IF key \in DOMAIN obj THEN obj[key] ELSE JsUndefined

PopKeep(arr) ==
    IF Len(arr) = 0
    THEN [val |-> JsUndefined, rest |-> arr]
    ELSE [val |-> arr[Len(arr)], rest |-> arr]

\* Array.prototype.pop: the last element (undefined when empty) and what is left.
Pop(arr) ==
    IF Len(arr) = 0
    THEN [val |-> JsUndefined, rest |-> arr]
    ELSE [val |-> arr[Len(arr)], rest |-> SubSeq(arr, 1, Len(arr) - 1)]

----------------------------------------------------------------------------
(* Flag.componentClick(svgElement, component, id, color): shapes are the   *)
(* .flag-component elements of svgElement, component is the index of the   *)
(* clicked one, current is selectedColorRef.current.                       *)

componentClickAll(shapes, component, id, current) ==
    [i \in 1..Len(shapes) |-> [shapes[i] EXCEPT !.fill = ToAttr(current)]]

componentClickOnlyTarget(shapes, component, id, current) ==
    [shapes EXCEPT ![component].fill = ToAttr(current)]

componentClick(shapes, component, id, current) ==
    IF Truthy(id)
    THEN [i \in 1..Len(shapes) |->
             IF shapes[i].id = id
             THEN [shapes[i] EXCEPT !.fill = ToAttr(current)]
             ELSE shapes[i]]
    ELSE [shapes EXCEPT ![component].fill = ToAttr(current)]

\* A click event on shape el runs every listener attached to it, in the
\* order they were attached.
RECURSIVE RunListeners(_, _, _, _)
RunListeners(shapes, el, ls, current) ==
    IF ls = <<>>
    THEN shapes
    ELSE CHOOSE r \in {RunListeners(s, el, Tail(ls), current) :
                           s \in {componentClick(shapes, el, Head(ls).id, current)}} : TRUE

----------------------------------------------------------------------------
(* Flag.extractSvgData(svgElement).  The loop body for element i, on the   *)
(* loop state acc = [grays, usedGreys, newFlagComponents, shapes].  The    *)
(* loops bind each intermediate state as the element of a singleton set so *)
(* that it is computed once.                                               *)

\* lines 45-58: newFlagComponents[id] = [entry, ...newFlagComponents[id]] or [entry]
NewEntry(comps, entry) ==
    IF Truthy(entry.id) /\ PropKey(entry.id) \in DOMAIN comps
    THEN Put(comps, PropKey(entry.id), <<entry>> \o comps[PropKey(entry.id)])
    ELSE Put(comps, PropKey(entry.id), <<entry>>)

ExtractElAlwaysPop(acc, i) ==
    LET el    == acc.shapes[i]
        fill0 == el.fill
        id    == el.id
        entry == [el |-> i, id |-> id, color |-> fill0]
        p     == Pop(acc.grays)
    IN  [grays             |-> p.rest,
         usedGreys         |-> acc.usedGreys,
         newFlagComponents |-> NewEntry(acc.newFlagComponents, entry),
         shapes            |-> [acc.shapes EXCEPT
                                  ![i].fill = ToAttr(p.val),
                                  ![i].listeners = Append(@, [id |-> id, color |-> fill0])]]

ExtractEl(acc, i) ==
    LET el    == acc.shapes[i]
        fill0 == el.fill
        id    == el.id
        entry == [el |-> i, id |-> id, color |-> fill0]
        p     == Pop(acc.grays)
        fresh == ~Truthy(Get(acc.usedGreys, PropKey(id)))
        used  == IF Truthy(id) /\ fresh
                 THEN Put(acc.usedGreys, PropKey(id), p.val)
                 ELSE acc.usedGreys
        left  == IF Truthy(id) /\ ~fresh THEN acc.grays ELSE p.rest
        fill  == IF Truthy(id) THEN ToAttr(used[PropKey(id)]) ELSE ToAttr(p.val)
    IN  [grays             |-> left,
         usedGreys         |-> used,
         newFlagComponents |-> NewEntry(acc.newFlagComponents, entry),
         shapes            |-> [acc.shapes EXCEPT
                                  ![i].fill = fill,
                                  ![i].listeners = Append(@, [id |-> id, color |-> fill0])]]

RECURSIVE ExtractLoop(_, _)
ExtractLoop(acc, i) ==
    IF i > Len(acc.shapes)
    THEN acc
    ELSE CHOOSE r \in {ExtractLoop(a, i + 1) : a \in {ExtractEl(acc, i)}} : TRUE

extractSvgData(shapes) ==
    ExtractLoop([grays |-> grays, usedGreys |-> EmptyObj,
                 newFlagComponents |-> EmptyObj, shapes |-> shapes], 1)

----------------------------------------------------------------------------
(* The generator, create_flag.py, as generate_flags.sh calls it:           *)
(*   create_flag.py COUNTRY -x W -y H [directives] -c COLOUR...            *)
(* A run lays the directives out in command-line order, each claiming the  *)
(* next unclaimed colours for its regions, and writes the document only    *)
(* when every directive has been laid out.                                 *)

\* One-region shapes and stripe sets of n regions.
ShapeKinds == {"circle", "moon", "star"}

Directives ==
    [kind : ShapeKinds, n : {1}] \cup [kind : {"horizontal", "vertical"}, n : 1..MaxStripes]

ColourArgs == {"C8102E", "FFFFFF"}

DirectiveSeqs == UNION {[1..n -> Directives] : n \in 0..MaxDirectives}

ColourLists == UNION {[1..n -> ColourArgs] : n \in 0..MaxColours}

IsStripeSet(d) == d.kind \in {"horizontal", "vertical"}

\* Number of fillable regions a directive claims a colour for.
RegionCount(d) == IF IsStripeSet(d) THEN d.n ELSE 1

\* The canvas background is a region of its own unless a stripe set covers
\* the canvas (section 8: a lone star needs two colours, star and
\* background; three stripes need three).
HasBackground(ds) == \A i \in 1..Len(ds) : ~IsStripeSet(ds[i])

\* fill attribute of a colour argument
HexFill(c) == "#" \o c

\* The shapes of directive number k, claiming colours cursor+1 .. cursor+n.
LayoutShapesSameColour(ds, k, colours, cursor) ==
    [j \in 1..RegionCount(ds[k]) |->
        [directive |-> k, kind |-> ds[k].kind, fill |-> HexFill(colours[cursor + 1])]]

LayoutShapes(ds, k, colours, cursor) ==
    [j \in 1..RegionCount(ds[k]) |->
        [directive |-> k, kind |-> ds[k].kind, fill |-> HexFill(colours[cursor + j])]]

GenIdle == [pc |-> "idle", directives |-> <<>>, colours |-> <<>>, next |-> 0,
            cursor |-> 0, shapes |-> <<>>, error |-> "none", written |-> <<>>]

\* A run starts: the arguments are parsed.
GenStart(ds, cs) ==
    [pc |-> "background", directives |-> ds, colours |-> cs, next |-> 0,
     cursor |-> 0, shapes |-> <<>>, error |-> "none", written |-> <<>>]

\* The background claims the first colour.
GenBackground ==
    /\ gen.pc = "background"
    /\ gen' = IF ~HasBackground(gen.directives)
              THEN [gen EXCEPT !.pc = "layout", !.next = 1]
              ELSE IF gen.cursor + 1 > Len(gen.colours)
              THEN [gen EXCEPT !.pc = "failed", !.error = "InsufficientColours"]
              ELSE [gen EXCEPT !.pc = "layout", !.next = 1, !.cursor = 1,
                               !.shapes = <<[directive |-> 0, kind |-> "background",
                                             fill |-> HexFill(gen.colours[1])]>>]
    /\ UNCHANGED viewerVars

GenLayoutOffByOne ==
    /\ gen.pc = "layout"
    /\ gen.next <= Len(gen.directives)
    /\ LET n == RegionCount(gen.directives[gen.next])
       IN  gen' = IF gen.cursor + n >= Len(gen.colours)
                  THEN [gen EXCEPT !.pc = "failed", !.error = "InsufficientColours"]
                  ELSE [gen EXCEPT !.next = @ + 1, !.cursor = @ + n,
                                   !.shapes = @ \o LayoutShapes(gen.directives, gen.next,
                                                                gen.colours, gen.cursor)]
    /\ UNCHANGED viewerVars

\* The next directive is laid out, or the colour list is exhausted.
GenLayout ==
    /\ gen.pc = "layout"
    /\ gen.next <= Len(gen.directives)
    /\ LET n == RegionCount(gen.directives[gen.next])
       IN  gen' = IF gen.cursor + n > Len(gen.colours)
                  THEN [gen EXCEPT !.pc = "failed", !.error = "InsufficientColours"]
                  ELSE [gen EXCEPT !.next = @ + 1, !.cursor = @ + n,
                                   !.shapes = @ \o LayoutShapes(gen.directives, gen.next,
                                                                gen.colours, gen.cursor)]
    /\ UNCHANGED viewerVars

\* Every directive is laid out: the document is written.
GenWrite ==
    /\ gen.pc = "layout"
    /\ gen.next > Len(gen.directives)
    /\ gen' = [gen EXCEPT !.pc = "done", !.written = gen.shapes]
    /\ UNCHANGED viewerVars

----------------------------------------------------------------------------
(* The viewer. *)

\* The first render of App, Flag and ColourPicker, committed: ReactSVG has
\* started to fetch flags/ua.svg, no effect has run yet.
ViewerInit ==
    /\ mounted = FALSE
    /\ flag = "ua"
    /\ dropdown = countries[1]
    /\ color = "#FFFFFF"
    /\ pickerColor = JsNull
    /\ selectedColorRef = "#FFFFFF"
    /\ loading = TRUE
    /\ flagComponents = EmptyObj
    /\ dom = NoSvg
    /\ requests = {[sel |-> 0, src |-> "ua"]}
    /\ timers = <<>>
    /\ nSel = 0
    /\ nPicks = 0
    /\ nClicks = 0
    /\ clicked = 0

Init == ViewerInit /\ gen = GenIdle

\* The effects of the first render: Flag sets loading and copies selectedColor
\* into the ref; ColourPicker reports its selectedColor (null) through
\* selectColor, App stores it and Flag's effect copies it into the ref.
Mount ==
    /\ ~mounted
    /\ mounted' = TRUE
    /\ loading' = TRUE
    /\ color' = pickerColor
    /\ selectedColorRef' = pickerColor
    /\ UNCHANGED <<flag, dropdown, pickerColor, flagComponents, dom, requests, timers,
                   nSel, nPicks, nClicks, clicked, gen>>

\* <select onChange={e => setFlag(e.target.value)}> with a value that is
\* already the flag state: React keeps the state, nothing re-renders.
SelectSame(c) ==
    /\ mounted
    /\ c /= dropdown
    /\ c = flag
    /\ dropdown' = c
    /\ UNCHANGED <<mounted, flag, color, pickerColor, selectedColorRef, loading,
                   flagComponents, dom, requests, timers, nSel, nPicks, nClicks,
                   clicked, gen>>

SelectNoLoading(c) ==
    /\ mounted
    /\ nSel < MaxSelect
    /\ c /= dropdown
    /\ c /= flag
    /\ dropdown' = c
    /\ flag' = c
    /\ dom' = NoSvg
    /\ nSel' = nSel + 1
    /\ requests' = requests \cup {[sel |-> nSel + 1, src |-> c]}
    /\ clicked' = 0
    /\ UNCHANGED <<mounted, color, pickerColor, selectedColorRef, loading, flagComponents,
                   timers, nPicks, nClicks, gen>>

\* onChange with another country: setFlag, Flag's effect on countryCode sets
\* loading, ReactSVG drops the injected <svg> and starts to fetch the new src.
Select(c) ==
    /\ mounted
    /\ nSel < MaxSelect
    /\ c /= dropdown
    /\ c /= flag
    /\ dropdown' = c
    /\ flag' = c
    /\ loading' = TRUE
    /\ dom' = NoSvg
    /\ nSel' = nSel + 1
    /\ requests' = requests \cup {[sel |-> nSel + 1, src |-> c]}
    /\ clicked' = 0
    /\ UNCHANGED <<mounted, color, pickerColor, selectedColorRef, flagComponents,
                   timers, nPicks, nClicks, gen>>

loadFlagNoTimer(r) == timers

\* loadFlag: setTimeout(..., 100); the function it returns is dropped by the
\* caller (ReactSVG's afterInjection), so the timer is never cleared.
loadFlag(r) == Append(timers, r.sel)

\* ReactSVG finished the injection of the current src: the <svg> is in the
\* page and afterInjection (loadFlag) runs.
Inject(r, ids) ==
    /\ mounted
    /\ r \in requests
    /\ r.sel = nSel
    /\ requests' = requests \ {r}
    /\ dom' = NewSvg(r.sel, r.src, ids)
    /\ timers' = loadFlag(r)
    /\ UNCHANGED <<mounted, flag, dropdown, color, pickerColor, selectedColorRef,
                   loading, flagComponents, nSel, nPicks, nClicks, clicked, gen>>

\* An injection started for an earlier src finishes after the src changed:
\* its <svg> lands in a wrapper that is no longer in the page, and its
\* afterInjection still runs.
InjectStale(r) ==
    /\ mounted
    /\ r \in requests
    /\ r.sel < nSel
    /\ requests' = requests \ {r}
    /\ timers' = loadFlag(r)
    /\ UNCHANGED <<mounted, flag, dropdown, color, pickerColor, selectedColorRef,
                   loading, flagComponents, dom, nSel, nPicks, nClicks, clicked, gen>>

\* The fetch fails: afterInjection is not called.
InjectFail(r) ==
    /\ mounted
    /\ r \in requests
    /\ requests' = requests \ {r}
    /\ UNCHANGED <<mounted, flag, dropdown, color, pickerColor, selectedColorRef,
                   loading, flagComponents, dom, timers, nSel, nPicks, nClicks,
                   clicked, gen>>

\* The oldest timer fires and document.querySelector("svg") finds the <svg>.
TimerFireExtract ==
    /\ timers /= <<>>
    /\ dom.present
    /\ timers' = Tail(timers)
    /\ dom' = [dom EXCEPT !.shapes = extractSvgData(dom.shapes).shapes]
    /\ flagComponents' = extractSvgData(dom.shapes).newFlagComponents
    /\ loading' = FALSE
    /\ clicked' = 0
    /\ UNCHANGED <<mounted, flag, dropdown, color, pickerColor, selectedColorRef,
                   requests, nSel, nPicks, nClicks, gen>>

\* The oldest timer fires and there is no <svg> in the page.
TimerFireNoSvg ==
    /\ timers /= <<>>
    /\ ~dom.present
    /\ timers' = Tail(timers)
    /\ UNCHANGED <<mounted, flag, dropdown, color, pickerColor, selectedColorRef,
                   loading, flagComponents, dom, requests, nSel, nPicks, nClicks,
                   clicked, gen>>

PickNoRef(c) ==
    /\ mounted
    /\ nPicks < MaxPicks
    /\ c /= pickerColor
    /\ pickerColor' = c
    /\ color' = c
    /\ nPicks' = nPicks + 1
    /\ clicked' = 0
    /\ UNCHANGED <<mounted, flag, dropdown, selectedColorRef, loading, flagComponents,
                   dom, requests, timers, nSel, nClicks, gen>>

\* A swatch of ColourPicker is clicked: setSelectedColor, the effect calls
\* selectColor, App stores the colour, Flag's effect copies it into the ref.
Pick(c) ==
    /\ mounted
    /\ nPicks < MaxPicks
    /\ c /= pickerColor
    /\ pickerColor' = c
    /\ color' = c
    /\ selectedColorRef' = c
    /\ nPicks' = nPicks + 1
    /\ clicked' = 0
    /\ UNCHANGED <<mounted, flag, dropdown, loading, flagComponents, dom, requests,
                   timers, nSel, nClicks, gen>>

\* A click on shape el of the visible flag.
Click(el) ==
    /\ mounted
    /\ nClicks < MaxClicks
    /\ dom.present
    /\ ~loading
    /\ el \in 1..Len(dom.shapes)
    /\ dom.shapes[el].listeners /= <<>>
    /\ dom' = [dom EXCEPT !.shapes =
                  RunListeners(dom.shapes, el, dom.shapes[el].listeners, selectedColorRef)]
    /\ nClicks' = nClicks + 1
    /\ clicked' = el
    /\ UNCHANGED <<mounted, flag, dropdown, color, pickerColor, selectedColorRef,
                   loading, flagComponents, requests, timers, nSel, nPicks, gen>>

Next ==
    \/ Mount
    \/ \E c \in Countries : SelectSame(c)
    \/ \E c \in Countries : Select(c)
    \/ \E r \in requests : \E ids \in DocSet : Inject(r, ids)
    \/ \E r \in requests : InjectStale(r)
    \/ \E r \in requests : InjectFail(r)
    \/ TimerFireExtract
    \/ TimerFireNoSvg
    \/ \E c \in PickSet : Pick(c)
    \/ \E el \in 1..Len(dom.shapes) : Click(el)

Spec == Init /\ [][Next]_vars

\* The viewer while the timer of its only load is pending: the state after
\* Mount and after the injection of flags/ua.svg, for any document of up to
\* MaxLoadShapes shapes.
LoadInit ==
    /\ mounted = TRUE
    /\ flag = "ua"
    /\ dropdown = countries[1]
    /\ color = JsNull
    /\ pickerColor = JsNull
    /\ selectedColorRef = JsNull
    /\ loading = TRUE
    /\ flagComponents = EmptyObj
    /\ \E ids \in LoadDocSet : dom = NewSvg(0, "ua", ids)
    /\ requests = {}
    /\ timers = <<0>>
    /\ nSel = 0
    /\ nPicks = 0
    /\ nClicks = 0
    /\ clicked = 0
    /\ gen = GenIdle

LoadNext == TimerFireExtract

LoadSpec == LoadInit /\ [][LoadNext]_vars

\* A run of the generator on any command line within the bounds.
GenInit ==
    /\ ViewerInit
    /\ \E ds \in DirectiveSeqs : \E cs \in ColourLists : gen = GenStart(ds, cs)

GenNext == GenBackground \/ GenLayout \/ GenWrite

GenSpec == GenInit /\ [][GenNext]_vars

\* The event loop runs the mount effects and every timer that is due.
LiveSpec ==
    /\ Init
    /\ [][Next]_vars
    /\ WF_vars(Mount)
    /\ WF_vars(TimerFireExtract)
    /\ WF_vars(TimerFireNoSvg)

----------------------------------------------------------------------------
(* Properties of the viewer. *)

Shapes == 1..Len(dom.shapes)

\* extractSvgData has run on the document in the page.
Loaded == dom.present /\ ~loading /\ \A i \in Shapes : dom.shapes[i].listeners /= <<>>

\* Shapes i and j of a document are in the same identity group.
SameGroup(shapes, i, j) == i = j \/ (Truthy(shapes[i].id) /\ shapes[i].id = shapes[j].id)

\* The first shape of each identity group stands for the group.
GroupLeaders(shapes) ==
    {i \in 1..Len(shapes) : \A j \in 1..(i - 1) : ~SameGroup(shapes, i, j)}

NumGroups(shapes) == Cardinality(GroupLeaders(shapes))

\* C1: a click on shape s while the selected colour is c leaves every shape
\* with the same non-empty id as s with fill c; when s has no id, s itself
\* has fill c.
C1_ClickRepaintsGroup ==
    [][\A el \in Shapes : \A c \in Swatches :
          (Click(el) /\ color = c) =>
              \A i \in 1..Len(dom'.shapes) :
                  SameGroup(dom.shapes, el, i) => dom'.shapes[i].fill = c]_vars

C1_Witness ==
    /\ Loaded
    /\ clicked /= 0
    /\ color \in Swatches
    /\ \E i \in Shapes :
          /\ i /= clicked
          /\ SameGroup(dom.shapes, clicked, i)
          /\ dom.shapes[i].fill = color
          /\ dom.shapes[clicked].fill = color

\* The elements flagComponents files under key k.
ElsOf(fc, k) == {fc[k][n].el : n \in 1..Len(fc[k])}

\* C2: after extractSvgData has run on a document, flagComponents partitions
\* its shapes: every shape is in exactly one group, shapes with the same id
\* are in the same group, each shape with no id is a singleton group.
C2_MappingPartitionsShapes ==
    Loaded =>
        /\ \A i \in Shapes :
              Cardinality({k \in DOMAIN flagComponents : i \in ElsOf(flagComponents, k)}) = 1
        /\ \A k \in DOMAIN flagComponents :
              /\ Cardinality(ElsOf(flagComponents, k)) = Len(flagComponents[k])
              /\ \A i, j \in ElsOf(flagComponents, k) : SameGroup(dom.shapes, i, j)
        /\ \A i, j \in Shapes :
              SameGroup(dom.shapes, i, j) =>
                  \E k \in DOMAIN flagComponents : {i, j} \subseteq ElsOf(flagComponents, k)

\* The fills extractSvgData leaves: one palette colour per group, different
\* groups different colours.
DistinctPlaceholders(shapes) ==
    /\ \A i \in 1..Len(shapes) : shapes[i].fill \in Grays
    /\ \A i, j \in 1..Len(shapes) :
          (shapes[i].fill = shapes[j].fill) <=> SameGroup(shapes, i, j)

\* C3: after a load of a flag with at most four identity groups every group
\* has one colour of the gray palette, all its shapes carry it as fill and
\* two different groups carry different colours.
C3_PlaceholderPerGroup ==
    [][(TimerFireExtract /\ NumGroups(dom.shapes) <= Len(grays)) =>
          DistinctPlaceholders(dom'.shapes)]_vars

C3_Witness ==
    /\ Loaded
    /\ NumGroups(dom.shapes) = Len(grays)
    /\ Len(dom.shapes) > Len(grays)
    /\ DistinctPlaceholders(dom.shapes)

\* C4: a load that is pending when the country is selected again is
\* discarded: its timer never runs extractSvgData, only the timer of the
\* load of the latest selection does.
C4_StaleTimerNeverExtracts ==
    [][TimerFireExtract => Head(timers) = nSel]_vars

\* C5: when a flag has more identity groups than the palette has colours,
\* every shape's fill after the load is still a colour of the palette.
C5_FallbackIsPaletteColour ==
    [][TimerFireExtract => \A i \in 1..Len(dom'.shapes) : dom'.shapes[i].fill \in Grays]_vars

\* The load of the current selection is complete: the flag is shown, every
\* shape of the document of the selected country carries a fill the load
\* assigned or a click applied, and has its click handler.
LoadComplete ==
    /\ Loaded
    /\ dom.src = flag
    /\ dom.sel = nSel
    /\ \A i \in Shapes : dom.shapes[i].fill /= OrigFill

\* C6: after a selection whose SVG is injected the viewer suspends once and
\* completes the load: loading becomes false with placeholders applied and
\* handlers wired on the document of the latest selection (unless the user
\* selects again first, which removes the document), and only a new
\* selection hides the flag again.
C6_LoadCompletes ==
    /\ dom.present ~> (LoadComplete \/ ~dom.present)
    /\ [][(~loading /\ loading') => flag' /= flag]_vars

C6_Witness ==
    /\ nSel >= 1
    /\ LoadComplete
    /\ timers = <<>>

\* C9: after a load, whatever the picks and clicks, all shapes that share a
\* non-empty id have the same fill.
C9_GroupSharesFill ==
    Loaded =>
        \A i, j \in Shapes :
            SameGroup(dom.shapes, i, j) => dom.shapes[i].fill = dom.shapes[j].fill

C9_Witness ==
    /\ Loaded
    /\ nClicks >= 2
    /\ nPicks >= 1
    /\ \E i, j \in Shapes :
          /\ i /= j
          /\ SameGroup(dom.shapes, i, j)
          /\ dom.shapes[i].fill \in Swatches
          /\ dom.shapes[j].fill = dom.shapes[i].fill

\* C10: a click applies the colour picked most recently before it, not the
\* colour that was selected when the handler was attached.
C10_ClickUsesLatestPick ==
    (Loaded /\ clicked /= 0) =>
        \A i \in Shapes :
            SameGroup(dom.shapes, clicked, i) => dom.shapes[i].fill = ToAttr(pickerColor)

C10_Witness ==
    /\ Loaded
    /\ clicked /= 0
    /\ nPicks >= 2
    /\ pickerColor \in Swatches
    /\ dom.shapes[clicked].fill = pickerColor

----------------------------------------------------------------------------
(* Properties of the generator. *)

\* Regions the command line demands: the background, when it shows, and the
\* regions of every directive.
RECURSIVE RegionsFrom(_, _)
RegionsFrom(ds, k) ==
    IF k > Len(ds)
    THEN 0
    ELSE (IF ds[k].kind \in {"horizontal", "vertical"} THEN ds[k].n ELSE 1)
         + RegionsFrom(ds, k + 1)

RegionDemand(ds) ==
    (IF \E k \in 1..Len(ds) : ds[k].kind \in {"horizontal", "vertical"} THEN 0 ELSE 1)
    + RegionsFrom(ds, 1)

GenEnded == gen.pc \in {"done", "failed"}

\* C7: the generator raises InsufficientColours if and only if the colour
\* list is strictly shorter than the number of regions the directives
\* demand; with too few colours nothing is written, with enough every region
\* is.
C7_InsufficientColoursIff ==
    GenEnded =>
        /\ (gen.error = "InsufficientColours")
              <=> (Len(gen.colours) < RegionDemand(gen.directives))
        /\ (gen.pc = "failed") <=> (gen.error = "InsufficientColours")
        /\ gen.pc = "failed" => gen.written = <<>>
        /\ gen.pc = "done" => Len(gen.written) = RegionDemand(gen.directives)

C7_Witness ==
    /\ gen.pc = "failed"
    /\ gen.error = "InsufficientColours"
    /\ Len(gen.directives) >= 2
    /\ gen.cursor >= 1
    /\ Len(gen.colours) + 1 = RegionDemand(gen.directives)

\* C8: the k-th region, in declaration order, is filled with the k-th colour
\* of the list, and the shapes of a later directive come after the shapes of
\* an earlier one.
C8_ColoursInDeclarationOrder ==
    gen.pc = "done" =>
        /\ \A k \in 1..Len(gen.written) : gen.written[k].fill = "#" \o gen.colours[k]
        /\ \A j, k \in 1..Len(gen.written) :
              j < k => gen.written[j].directive <= gen.written[k].directive
        /\ \A d \in 1..Len(gen.directives) :
              \E k \in 1..Len(gen.written) :
                  /\ gen.written[k].directive = d
                  /\ gen.written[k].kind = gen.directives[d].kind

C8_Witness ==
    /\ gen.pc = "done"
    /\ Len(gen.directives) >= 2
    /\ Len(gen.written) >= 3
    /\ \E j, k \in 1..Len(gen.written) :
          /\ gen.written[j].directive = gen.written[k].directive
          /\ gen.written[j].fill /= gen.written[k].fill

----------------------------------------------------------------------------
(* Further properties of the viewer. *)

\* The fill a click would write now: componentClick reads the ref.
ClickColour == ToAttr(selectedColorRef)

\* C11: the colour a click would apply is always one of the seven swatch
\* colours or the initial colour '#FFFFFF'; before the user has clicked any
\* swatch, a click on a shape paints it '#FFFFFF'.
C11_ClickColourIsSwatchOrInitial ==
    /\ ClickColour \in Swatches \cup {"#FFFFFF"}
    /\ (Loaded /\ clicked /= 0 /\ nPicks = 0) => dom.shapes[clicked].fill = "#FFFFFF"

\* C12: a click on a shape changes nothing except the fill of the shapes of
\* that shape's identity group: the fill of every shape outside the group,
\* the selected colour, the selected country, the loading flag and the
\* stored group mapping are unchanged.
C12_ClickFrame ==
    [][\A el \in Shapes :
          Click(el) =>
              /\ dom'.present = dom.present
              /\ dom'.src = dom.src
              /\ Len(dom'.shapes) = Len(dom.shapes)
              /\ \A i \in Shapes :
                    /\ dom'.shapes[i].id = dom.shapes[i].id
                    /\ dom'.shapes[i].listeners = dom.shapes[i].listeners
                    /\ ~SameGroup(dom.shapes, el, i) =>
                          dom'.shapes[i].fill = dom.shapes[i].fill
              /\ color' = color
              /\ pickerColor' = pickerColor
              /\ selectedColorRef' = selectedColorRef
              /\ flag' = flag
              /\ dropdown' = dropdown
              /\ loading' = loading
              /\ flagComponents' = flagComponents]_vars

C12_Witness ==
    /\ Loaded
    /\ clicked /= 0
    /\ dom.shapes[clicked].fill \in Swatches
    /\ \E i \in Shapes :
          /\ ~SameGroup(dom.shapes, clicked, i)
          /\ dom.shapes[i].fill \in Grays

\* The fills a click can write.
ClickFills == {ToAttr(c) : c \in Swatches \cup {JsNull}}

\* C13: once the flag is visible and the user has painted a shape by
\* clicking it, the shape's fill changes only through a later click on its
\* identity group or through a change of the selected country; no timer or
\* load step resets it while the same country stays selected.
C13_PaintedFillKept ==
    [][\A i \in Shapes :
          (/\ Loaded
           /\ nClicks >= 1
           /\ dom.shapes[i].fill \in ClickFills
           /\ (~dom'.present \/ dom'.shapes[i].fill /= dom.shapes[i].fill))
          => \/ flag' /= flag
             \/ \E el \in Shapes : Click(el) /\ SameGroup(dom.shapes, el, i)]_vars

\* The fills a load can write: a gray of the palette, or the string of the
\* undefined that grays.pop() returns once the palette is used up.
LoadFills == Grays \cup {ToAttr(JsUndefined)}

\* C14: whenever the flag container is visible (loading is false), every
\* shape of the displayed document has a fill the load assigned or a click
\* applied; the document's original fills are never visible, under any
\* interleaving of selections, injections and timer firings.
C14_NoOriginalFillVisible ==
    ~loading =>
        \A i \in Shapes :
            /\ dom.shapes[i].fill /= OrigFill
            /\ dom.shapes[i].fill \in LoadFills \cup ClickFills

C14_Witness ==
    /\ ~loading
    /\ dom.present
    /\ nSel >= 1
    /\ timers /= <<>>
    /\ \E i \in Shapes : dom.shapes[i].fill \in Grays
    /\ \E i \in Shapes : dom.shapes[i].fill \in Swatches

\* C15: in every reachable state the option the dropdown shows is the App's
\* flag state (the country of the heading and of the flag), and the flag
\* state is a member of the countries list.
C15_DropdownShowsFlag ==
    /\ dropdown = flag
    /\ flag \in Countries

====
